---- MODULE Spec2Model ----
(***************************************************************************)
(* Model of Ars_Magica_5th/arm5_py_integration/__init__.py:                *)
(*   - the alert registry (alert, disable_old_alerts and the attributes    *)
(*     alert.numid, alert.strid, alert.has_disable_been_called),           *)
(*   - the generation of custom_rt_color_css from css_colors.csv,          *)
(*   - the aggregation of the per-tab EXPORTS mappings.                    *)
(*                                                                         *)
(* Text is modelled by what the code does to it.  A multi-line string is a *)
(* sequence of lines; a line is a record [indent, body] where indent is    *)
(* the number of leading spaces and body the sequence of the pieces the    *)
(* f-string concatenates (<<>> for a line holding only whitespace).        *)
(***************************************************************************)
EXTENDS Integers, Sequences, FiniteSets, TLC

VARIABLES
    numid,                    \* alert.numid
    strid,                    \* alert.strid
    has_disable_been_called,  \* alert.has_disable_been_called
    ret,                      \* outcome of the last call (return value or exception)
    issued,                   \* history: the successful alert() calls, in call order
    scripts,                  \* history: <<marker, script>> of every disable_old_alerts() call
    table,                    \* the rows of css_colors.csv
    pos,                      \* number of rows the csv reader has yielded
    css_rules,                \* css_rules
    css,                      \* EXPORTS["custom_rt_color_css"], or Unset
    tabs,                     \* tab_1_character.EXPORTS .. tab_6_sheet.EXPORTS
    EXPORTS,                  \* EXPORTS
    merged                    \* number of EXPORTS.update(...) statements executed

vars == <<numid, strid, has_disable_been_called, ret, issued, scripts,
          table, pos, css_rules, css, tabs, EXPORTS, merged>>

alertVars  == <<numid, strid, has_disable_been_called, ret, issued, scripts>>
colorVars  == <<table, pos, css_rules, css>>
exportVars == <<tabs, EXPORTS, merged>>

\* Bounds of the model
MaxAuto == 2
MaxStr == 2
MaxRows == 2

Unset == [unset |-> TRUE]

-----------------------------------------------------------------------------
(* Generic helpers                                                         *)

Min(S) == CHOOSE x \in S : \A y \in S : x <= y

Digit == <<"0", "1", "2", "3", "4", "5", "6", "7", "8", "9">>

\* Decimal rendering of a natural number: str(n), f"{n}"
RECURSIVE Dec(_)
Dec(n) == IF n < 10 THEN Digit[n + 1] ELSE Dec(n \div 10) \o Digit[(n % 10) + 1]

Line(n, pieces) == [indent |-> n, body |-> pieces]

\* textwrap.dedent on lines indented with spaces: lines holding only
\* whitespace are normalised to empty lines and do not count for the margin
Dedent(lines) ==
    LET nonblank == {i \in 1..Len(lines) : lines[i].body # <<>>}
        margin   == IF nonblank = {} THEN 0 ELSE Min({lines[i].indent : i \in nonblank})
    IN  [i \in 1..Len(lines) |->
            IF lines[i].body = <<>> THEN Line(0, <<>>)
            ELSE Line(lines[i].indent - margin, lines[i].body)]

-----------------------------------------------------------------------------
(* The alert registry                                                      *)

\* Arguments the calls are tried with
Levels == {"info", "warning", "error"}
Titles == {"Update"}
Texts  == { <<Line(0, <<"Read this.">>)>>,
            <<Line(0, <<"First line">>), Line(2, <<"second line">>)>> }
None   == [t |-> "None", s |-> "", n |-> 0]
StrID(s) == [t |-> "str", s |-> s, n |-> 0]
IntID(n) == [t |-> "int", s |-> "", n |-> n]
IDs    == {None, StrID("a"), StrID("0"), IntID(1)}
Markers == {"sheet_init", "migrated"}

\* str(ID)
Str(ID) == IF ID.t = "int" THEN Dec(ID.n) ELSE ID.s

\* level.title()
LevelTitle(level) ==
    CASE level = "info" -> "Info"
      [] level = "warning" -> "Warning"
      [] OTHER -> level

\* the checks at the head of alert(): which exception, if any
alert_check_closed_first(level) ==
    IF has_disable_been_called THEN "RuntimeError"
    ELSE IF ~(level \in {"info", "warning"}) THEN "ValueError"
    ELSE "ok"

alert_check_no_guard(level) ==
    IF ~(level \in {"info", "warning"}) THEN "ValueError" ELSE "ok"

alert_check(level) ==
    IF ~(level \in {"info", "warning"}) THEN "ValueError"
    ELSE IF has_disable_been_called THEN "RuntimeError"
    ELSE "ok"

\* alert_id = alert.numid: the number an alert without ID gets
auto_id_after_increment(n) == n + 1

auto_id(n) == n

\* alert.numid += 1
numid_next(n) == n + 1

\* str(text).replace("\n", "\n" + indent) placed after the 16 spaces of the template
alert_text(text) ==
    [i \in 1..Len(text) |-> Line(16 + text[i].indent, text[i].body)]

\* the banner alert() returns, for the identifier rendered as idstr
\* (the multiplication sign that labels the checkbox is written x)
alert_html(title, text, level, idstr) ==
    Dedent(
        << Line(8,  <<"<input type=\"hidden\" class=\"alert-hidder\" name=\"",
                      "attr_alert-" \o idstr, "\" value=\"0\"/>">>),
           Line(8,  <<"<div class=\"alert alert-", level, "\">">>),
           Line(12, <<"<div>">>),
           Line(16, <<"<h3> ", LevelTitle(level), " - ", title, "</h3>">>) >>
        \o alert_text(text) \o
        << Line(12, <<"</div>">>),
           Line(12, <<"<label class=\"fakebutton\">">>),
           Line(16, <<"<input type=\"checkbox\" name=\"",
                      "attr_alert-" \o idstr, "\" value=\"1\" /> x">>),
           Line(12, <<"</label>">>),
           Line(8,  <<"</div>">>) >>)

\* the name of the hidden input of a banner (its first line)
HiddenName(html) == html[1].body[2]


\* alert(title, text, level=level, ID=ID)
alert(title, text, level, ID) ==
    LET chk == alert_check(level) IN
    IF chk # "ok"
    THEN /\ ret' = [op |-> "alert", status |-> chk, level |-> level, ID |-> ID]
         /\ UNCHANGED <<numid, strid, has_disable_been_called, issued, scripts>>
    ELSE /\ IF ID = None THEN numid < MaxAuto ELSE Len(strid) < MaxStr
         /\ LET alert_id == IF ID = None THEN Dec(auto_id(numid)) ELSE Str(ID)
                html     == alert_html(title, text, level, alert_id)
            IN  /\ IF ID = None
                   THEN numid' = numid_next(numid) /\ strid' = strid
                   ELSE strid' = Append(strid, alert_id) /\ numid' = numid
                /\ ret' = [op |-> "alert", status |-> "ok", out |-> html,
                           title |-> title, text |-> text, level |-> level, ID |-> ID]
                /\ issued' = Append(issued, [auto |-> ID = None, ID |-> ID, id |-> alert_id,
                                             name |-> HiddenName(html)])
         /\ UNCHANGED <<has_disable_been_called, scripts>>

\* the identifiers whose entries disable_old_alerts() writes:
\* list(range(alert.numid)) + alert.strid, each rendered by f"{i}"
old_alert_ids_str_first ==
    strid \o [i \in 1..numid |-> Dec(i - 1)]

old_alert_ids ==
    [i \in 1..numid |-> Dec(i - 1)] \o strid

\* lines = f",\n{indent}".join(f'"alert-{i}": 1' ...) placed after the 12 spaces
\* of the template: an empty join leaves a line of whitespace
disable_lines(ids) ==
    IF ids = <<>> THEN <<Line(12, <<>>)>>
    ELSE [i \in 1..Len(ids) |->
            Line(12, <<"\"", "alert-" \o ids[i], "\": 1",
                       IF i < Len(ids) THEN "," ELSE "">>)]

\* the script disable_old_alerts() returns
disable_js(marker, ids) ==
    Dedent(
        << Line(8,  <<"setAttrs({">>),
           Line(12, <<"\"", marker, "\": 1", ",">>) >>
        \o disable_lines(ids) \o
        << Line(8,  <<"}); ">>) >>)

\* alert.has_disable_been_called = True
closed_flag_toggled == ~has_disable_been_called

closed_flag == TRUE

\* disable_old_alerts(marker)
disable_old_alerts(marker) ==
    LET js == disable_js(marker, old_alert_ids) IN
    /\ has_disable_been_called' = closed_flag
    /\ ret' = [op |-> "disable_old_alerts", status |-> "ok", out |-> js, marker |-> marker]
    /\ scripts' = scripts \cup {<<marker, js>>}
    /\ UNCHANGED <<numid, strid, issued>>

InitAlert ==
    /\ numid = 0
    /\ strid = <<>>
    /\ has_disable_been_called = FALSE
    /\ ret = [op |-> "none", status |-> "ok"]
    /\ issued = <<>>
    /\ scripts = {}

IdleColor  == table = <<>> /\ pos = 0 /\ css_rules = <<>> /\ css = Unset
IdleExport == tabs = <<>> /\ EXPORTS = Unset /\ merged = 0

Init == InitAlert /\ IdleColor /\ IdleExport

Alert ==
    /\ \E title \in Titles, text \in Texts, level \in Levels, ID \in IDs :
          alert(title, text, level, ID)
    /\ UNCHANGED <<colorVars, exportVars>>

DisableOldAlerts ==
    /\ \E marker \in Markers : disable_old_alerts(marker)
    /\ UNCHANGED <<colorVars, exportVars>>

Next == Alert \/ DisableOldAlerts

Spec == Init /\ [][Next]_vars

-----------------------------------------------------------------------------
(* Python float arithmetic (IEEE 754 binary64, round to nearest, ties to   *)
(* even).  A natural number is a little-endian sequence of limbs below     *)
(* LimbBase without leading zero limbs; a float is [m, e], the exact value *)
(* m * 2^e with m below 2^53 after rounding.                               *)

LimbBits == 15
LimbBase == 2 ^ LimbBits
Significand == 53

RECURSIVE BigNorm(_)
BigNorm(a) ==
    IF a # <<>> /\ a[Len(a)] = 0 THEN BigNorm(SubSeq(a, 1, Len(a) - 1)) ELSE a

BigOfInt(n) ==
    BigNorm(<<n % LimbBase, (n \div LimbBase) % LimbBase, n \div (LimbBase * LimbBase)>>)

Limb(a, i) == IF i <= Len(a) THEN a[i] ELSE 0

RECURSIVE BigAddFrom(_, _, _, _)
BigAddFrom(a, b, i, carry) ==
    IF i > Len(a) /\ i > Len(b)
    THEN IF carry = 0 THEN <<>> ELSE <<carry>>
    ELSE LET t == Limb(a, i) + Limb(b, i) + carry
         IN  <<t % LimbBase>> \o BigAddFrom(a, b, i + 1, t \div LimbBase)

BigAdd(a, b) == BigNorm(BigAddFrom(a, b, 1, 0))

RECURSIVE BigMulSmallFrom(_, _, _, _)
BigMulSmallFrom(a, k, i, carry) ==
    IF i > Len(a)
    THEN IF carry = 0 THEN <<>> ELSE <<carry>>
    ELSE LET t == a[i] * k + carry
         IN  <<t % LimbBase>> \o BigMulSmallFrom(a, k, i + 1, t \div LimbBase)

\* a * k for 0 <= k < LimbBase
BigMulSmall(a, k) == BigNorm(BigMulSmallFrom(a, k, 1, 0))

Zeros(n) == [i \in 1..n |-> 0]

RECURSIVE BigMulFrom(_, _, _)
BigMulFrom(a, b, i) ==
    IF i > Len(b) THEN <<>>
    ELSE BigAdd(BigNorm(Zeros(i - 1) \o BigMulSmall(a, b[i])), BigMulFrom(a, b, i + 1))

BigMul(a, b) == BigMulFrom(a, b, 1)

\* a * 2^n
BigShl(a, n) ==
    BigNorm(Zeros(n \div LimbBits) \o BigMulSmall(a, 2 ^ (n % LimbBits)))

\* a divided by d, 0 < d < LimbBase, from the top limb i down with remainder r
RECURSIVE BigDivSmallFrom(_, _, _, _)
BigDivSmallFrom(a, d, i, r) ==
    IF i = 0 THEN [q |-> <<>>, r |-> r]
    ELSE LET t    == r * LimbBase + a[i]
             rest == BigDivSmallFrom(a, d, i - 1, t % d)
         IN  [q |-> rest.q \o <<t \div d>>, r |-> rest.r]

BigDivSmall(a, d) ==
    LET x == BigDivSmallFrom(a, d, Len(a), 0) IN [q |-> BigNorm(x.q), r |-> x.r]

\* floor(a / 2^n)
BigShr(a, n) ==
    LET dropped == SubSeq(a, (n \div LimbBits) + 1, Len(a))
    IN  BigDivSmall(dropped, 2 ^ (n % LimbBits)).q

RECURSIVE SmallBitLen(_)
SmallBitLen(x) == IF x = 0 THEN 0 ELSE 1 + SmallBitLen(x \div 2)

BigBitLen(a) ==
    IF a = <<>> THEN 0 ELSE LimbBits * (Len(a) - 1) + SmallBitLen(a[Len(a)])

\* bit i of a (bit 0 is the lowest)
BigBit(a, i) == (Limb(a, (i \div LimbBits) + 1) \div (2 ^ (i % LimbBits))) % 2

\* some bit of a below bit n is set
BigLowBits(a, n) ==
    \/ \E i \in 1..(n \div LimbBits) : Limb(a, i) # 0
    \/ Limb(a, (n \div LimbBits) + 1) % (2 ^ (n % LimbBits)) # 0

\* -1, 0, 1 as a < b, a = b, a > b, comparing from limb i down
RECURSIVE BigCmpFrom(_, _, _)
BigCmpFrom(a, b, i) ==
    IF i = 0 THEN 0
    ELSE IF Limb(a, i) < Limb(b, i) THEN -1
    ELSE IF Limb(a, i) > Limb(b, i) THEN 1
    ELSE BigCmpFrom(a, b, i - 1)

BigCmp(a, b) == BigCmpFrom(a, b, IF Len(a) > Len(b) THEN Len(a) ELSE Len(b))

\* the float nearest to m * 2^e, ties to even
Round(m, e) ==
    LET len == BigBitLen(m) IN
    IF len <= Significand THEN [m |-> m, e |-> e]
    ELSE LET n  == len - Significand
             q  == BigShr(m, n)
             up == /\ BigBit(m, n - 1) = 1
                   /\ (BigLowBits(m, n - 1) \/ BigBit(q, 0) = 1)
         IN  [m |-> IF up THEN BigAdd(q, <<1>>) ELSE q, e |-> e + n]

\* n / d for integers 0 <= n, 0 < d < LimbBase: int / int, and the value of a
\* decimal literal n/d.  The quotient is taken with 80 fraction bits, the
\* remainder kept as a sticky bit, so that Round sees the exact quotient.
FloatDiv(n, d) ==
    LET x == BigDivSmall(BigShl(BigOfInt(n), 80), d)
    IN  Round(BigAdd(BigShl(x.q, 1), IF x.r = 0 THEN <<>> ELSE <<1>>), -81)

FloatMul(a, b) == Round(BigMul(a.m, b.m), a.e + b.e)

FloatAdd(a, b) ==
    LET e == IF a.e < b.e THEN a.e ELSE b.e
    IN  Round(BigAdd(BigShl(a.m, a.e - e), BigShl(b.m, b.e - e)), e)

\* -1, 0, 1 as a < b, a = b, a > b
FloatCmp(a, b) ==
    LET e == IF a.e < b.e THEN a.e ELSE b.e
    IN  BigCmp(BigShl(a.m, a.e - e), BigShl(b.m, b.e - e))

-----------------------------------------------------------------------------
(* custom_rt_color_css                                                     *)

HexDigits == <<"0", "1", "2", "3", "4", "5", "6", "7", "8", "9", "A", "B", "C", "D", "E", "F">>
HexLower  == <<"0", "1", "2", "3", "4", "5", "6", "7", "8", "9", "a", "b", "c", "d", "e", "f">>

\* the rows css_colors.csv is tried with: <<R, G, B>> written as a
\* {color, hex} row with hex = #RRGGBB
HexByte(n) == <<HexDigits[(n \div 16) + 1], HexDigits[(n % 16) + 1]>>
HexOf(rgb) == <<"#">> \o HexByte(rgb[1]) \o HexByte(rgb[2]) \o HexByte(rgb[3])
RECURSIVE Concat(_)
Concat(chars) == IF chars = <<>> THEN "" ELSE chars[1] \o Concat(Tail(chars))
RowOf(rgb) == [color |-> "c" \o Concat(Tail(HexOf(rgb))), hex |-> HexOf(rgb)]
Palette ==
    { <<255, 255, 255>>, <<0, 0, 0>>,
      <<128, 128, 128>>, <<127, 127, 127>>,     \* just above and just below 0.5
      <<47, 143, 211>>, <<13, 163, 113>>,       \* 2126 R + 7152 G + 722 B = 1275000
      <<208, 112, 44>> }
Rows == {RowOf(rgb) : rgb \in Palette}
RECURSIVE SeqsUpTo(_, _)
SeqsUpTo(S, n) ==
    IF n = 0 THEN {<<>>}
    ELSE SeqsUpTo(S, n - 1) \cup
         {Append(t, x) : t \in {u \in SeqsUpTo(S, n - 1) : Len(u) = n - 1}, x \in S}

\* color_def["hex"].lstrip("#")
RECURSIVE lstrip(_)
lstrip(h) == IF h # <<>> /\ h[1] = "#" THEN lstrip(Tail(h)) ELSE h

\* int(c, 16) for one character
HexVal(c) ==
    (CHOOSE i \in 1..16 : HexDigits[i] = c \/ HexLower[i] = c) - 1

\* int(hex_color[2 * i : 2 * i + 2], 16) for i = 0, 1, 2
Channel(hex_color, i) == 16 * HexVal(hex_color[2 * i + 1]) + HexVal(hex_color[2 * i + 2])

\* luma = 0.2126 * r + 0.7152 * g + 0.0722 * b with r, g, b = channel / 255
luma(hex) ==
    LET h == lstrip(hex)
        r == FloatDiv(Channel(h, 0), 255)
        g == FloatDiv(Channel(h, 1), 255)
        b == FloatDiv(Channel(h, 2), 255)
    IN  FloatAdd(FloatAdd(FloatMul(FloatDiv(2126, 10000), r),
                          FloatMul(FloatDiv(7152, 10000), g)),
                 FloatMul(FloatDiv(722, 10000), b))

Half == FloatDiv(5, 10)

Selector(kind, name, tail) ==
    Line(0, <<".sheet-rolltemplate-custom .sheet-crt-container.sheet-crt-", kind, "-", name, tail>>)
Property(prop, value) == Line(4, <<"--", prop, ": ">> \o value \o <<";">>)
Closing == Line(0, <<"}">>)

\* the three line lists of one row before the closing brace is appended
lines_header(color_def) ==
    << Selector("color", color_def.color, " {"),
       Property("header-bg-color", color_def.hex) >>
    \o IF FloatCmp(luma(color_def.hex), Half) > 0
       THEN <<Property("header-text-color", <<"#000">>)>> ELSE <<>>

lines_rolls(color_def) ==
    << Selector("rlcolor", color_def.color, " .inlinerollresult {"),
       Property("roll-bg-color", color_def.hex) >>
    \o IF FloatCmp(luma(color_def.hex), Half) < 0
       THEN <<Property("roll-text-color", <<"#FFF">>)>> ELSE <<>>

lines_buttons(color_def) ==
    << Selector("btcolor", color_def.color, " a {"),
       Property("button-bg-color", color_def.hex) >>
    \o IF FloatCmp(luma(color_def.hex), Half) > 0
       THEN <<Property("button-text-color", <<"#000">>)>> ELSE <<>>

\* for lines in (lines_header, lines_rolls, lines_buttons):
\*     lines.append("}"); css_rules.append("\n".join(lines))
row_rules_buttons_first(color_def) ==
    << Append(lines_header(color_def), Closing),
       Append(lines_buttons(color_def), Closing),
       Append(lines_rolls(color_def), Closing) >>

row_rules(color_def) ==
    << Append(lines_header(color_def), Closing),
       Append(lines_rolls(color_def), Closing),
       Append(lines_buttons(color_def), Closing) >>

\* "\n".join(blocks): the lines of the blocks, one empty line when there is none
RECURSIVE Flatten(_)
Flatten(blocks) == IF blocks = <<>> THEN <<>> ELSE blocks[1] \o Flatten(Tail(blocks))
JoinNL(blocks) == IF blocks = <<>> THEN <<Line(0, <<>>)>> ELSE Flatten(blocks)

\* one iteration of "for color_def in reader"
ReadRow ==
    /\ pos < Len(table) /\ css = Unset
    /\ pos' = pos + 1
    /\ css_rules' = css_rules \o row_rules(table[pos + 1])
    /\ UNCHANGED <<table, css, alertVars, exportVars>>

\* EXPORTS["custom_rt_color_css"] = "*/\n" + "\n".join(css_rules) + "\n/*"
WriteCss ==
    /\ pos = Len(table) /\ css = Unset
    /\ css' = <<Line(0, <<"*/">>)>> \o JoinNL(css_rules) \o <<Line(0, <<"/*">>)>>
    /\ UNCHANGED <<table, pos, css_rules, alertVars, exportVars>>

InitColor ==
    /\ table \in SeqsUpTo(Rows, MaxRows)
    /\ pos = 0 /\ css_rules = <<>> /\ css = Unset
    /\ InitAlert /\ IdleExport

NextColor == ReadRow \/ WriteCss

SpecColor == InitColor /\ [][NextColor]_vars

-----------------------------------------------------------------------------
(* EXPORTS                                                                 *)

\* A mapping is a function from its keys to its values; a value is written
\* <<module, key>>, the module that bound it and the key it was bound to.

\* EXPORTS as it stands before the tabs are merged: the literal, then
\* botch_separate and custom_rt_color_css
BaseKeys ==
    { "markdown", "xp", "alert", "disable_old_alerts", "translation_attrs",
      "translation_attrs_setup", "html_header", "css_header",
      "botch_separate", "custom_rt_color_css" }
BaseExports == [k \in BaseKeys |-> <<"arm5_py_integration", k>>]

\* the modules merged, in the order of the update statements
TabModules ==
    << "tab_1_character", "tab_2_abilities", "tab_3_magic",
       "tab_4_combat", "tab_5_spells", "tab_6_sheet" >>

\* the keys a tab's EXPORTS is tried with
TabKeys == {"alert", "xp_table"}
TabExports(i, keys) == [k \in keys |-> <<TabModules[i], k>>]

\* d.update(other)
update_keep_existing(d, other) ==
    [k \in DOMAIN d \cup DOMAIN other |-> IF k \in DOMAIN d THEN d[k] ELSE other[k]]

update(d, other) ==
    [k \in DOMAIN d \cup DOMAIN other |-> IF k \in DOMAIN other THEN other[k] ELSE d[k]]

\* the tab the next update statement merges
next_tab(n) == n + 1

\* EXPORTS.update(tab_N.EXPORTS), the statement after `merged` of them
UpdateFromTab ==
    /\ merged < Len(TabModules)
    /\ EXPORTS' = update(EXPORTS, tabs[next_tab(merged)])
    /\ merged' = merged + 1
    /\ UNCHANGED <<tabs, alertVars, colorVars>>

InitExports ==
    /\ tabs \in {[i \in 1..Len(TabModules) |-> TabExports(i, ks[i])] :
                    ks \in [1..Len(TabModules) -> SUBSET TabKeys]}
    /\ EXPORTS = BaseExports
    /\ merged = 0
    /\ InitAlert /\ IdleColor

NextExports == UpdateFromTab

SpecExports == InitExports /\ [][NextExports]_vars

-----------------------------------------------------------------------------
(* Properties of the alert registry (checked under Spec)                   *)

ValidLevels == {"info", "warning"}

\* the keys of the entries of a script, in the order they are written
EntryKeys(js) ==
    LET entries == SelectSeq(js, LAMBDA l : l.body # <<>> /\ l.body[1] = "\"")
    IN  [i \in 1..Len(entries) |-> entries[i].body[2]]

\* the successful alert() calls without / with an explicit ID, in call order
AutoIssued == SelectSeq(issued, LAMBDA e : e.auto)
ExplicitIssued == SelectSeq(issued, LAMBDA e : ~e.auto)

\* some line of the banner carries the piece p
HasPiece(html, p) ==
    \E i \in 1..Len(html) : \E j \in 1..Len(html[i].body) : html[i].body[j] = p

\* the lines of text occur in the banner as consecutive lines, character for
\* character (the first one at the end of a line)
ContainsVerbatim(html, text) ==
    \E i \in 1..Len(html) :
        /\ i + Len(text) - 1 <= Len(html)
        /\ html[i].body = text[1].body /\ html[i].indent >= text[1].indent
        /\ \A k \in 2..Len(text) : html[i + k - 1] = text[k]

\* the lines of text occur in the banner as consecutive lines, whatever
\* their indentation
ContainsReindented(html, text) ==
    \E i \in 1..Len(html) :
        /\ i + Len(text) - 1 <= Len(html)
        /\ \A k \in 1..Len(text) : html[i + k - 1].body = text[k].body

\* C1: once disable_old_alerts() has run, every alert() call with a valid
\* level fails with RuntimeError, with or without an explicit ID.
C1_AlertAfterDisableFails ==
    (scripts # {} /\ ret.op = "alert" /\ ret.level \in ValidLevels)
        => ret.status = "RuntimeError"

C1_Witness ==
    /\ scripts # {} /\ ret.op = "alert" /\ ret.level \in ValidLevels
    /\ ret.ID # None /\ ret.status = "RuntimeError"

\* C2: the k-th successful alert() call without an explicit ID carries the
\* identifier k-1, whatever explicit-ID and failing calls are interleaved.
C2_SequentialAutoIds ==
    \A k \in 1..Len(AutoIssued) : AutoIssued[k].name = "attr_alert-" \o Dec(k - 1)

C2_Witness ==
    /\ Len(issued) >= 3
    /\ issued[1].auto /\ ~issued[2].auto /\ issued[3].auto
    /\ ret.op = "alert" /\ ret.status = "ValueError"

\* C3: the script disable_old_alerts() returns has, for every identifier
\* assigned so far, exactly one entry "alert-<id>": 1.
C3_EveryIdExactlyOnce ==
    ret.op = "disable_old_alerts" =>
        \A i \in 1..Len(issued) :
            Cardinality({j \in 1..Len(EntryKeys(ret.out)) :
                            EntryKeys(ret.out)[j] = "alert-" \o issued[i].id}) = 1

\* the part of C3 the code keeps: every identifier has at least one entry
C3_EveryIdListed ==
    ret.op = "disable_old_alerts" =>
        \A i \in 1..Len(issued) :
            \E j \in 1..Len(EntryKeys(ret.out)) :
                EntryKeys(ret.out)[j] = "alert-" \o issued[i].id

\* C4: an alert() call with an invalid level fails with ValueError in every
\* registry state and leaves numid, strid and has_disable_been_called as they were.
C4_InvalidLevel ==
    [][ (ret'.op = "alert" /\ ~(ret'.level \in ValidLevels))
            => /\ ret'.status = "ValueError"
               /\ UNCHANGED <<numid, strid, has_disable_been_called>> ]_vars

C4_Witness ==
    /\ scripts # {} /\ numid > 0 /\ strid # <<>>
    /\ ret.op = "alert" /\ ~(ret.level \in ValidLevels) /\ ret.status = "ValueError"

\* C5: no two banners returned by successful alert() calls carry the same
\* attr_alert-<id> name; each banner holds its title, its text and the hidden input.
C5_UniqueHiddenInput ==
    /\ \A i, j \in 1..Len(issued) : i # j => issued[i].name # issued[j].name
    /\ (ret.op = "alert" /\ ret.status = "ok") =>
          /\ HasPiece(ret.out, ret.title)
          /\ ContainsReindented(ret.out, ret.text)
          /\ ret.out[1].body[1] = "<input type=\"hidden\" class=\"alert-hidder\" name=\""
          /\ ret.out[1].body[2] = issued[Len(issued)].name

\* the text of C5 read character for character
C5_TextVerbatim ==
    (ret.op = "alert" /\ ret.status = "ok") => ContainsVerbatim(ret.out, ret.text)

\* C6: once disable_old_alerts() has run, has_disable_been_called stays true
\* and numid and strid never change again.
C6_ClosedForGood ==
    [][ scripts # {} =>
          /\ has_disable_been_called /\ has_disable_been_called'
          /\ numid' = numid /\ strid' = strid ]_vars

C6_Witness ==
    /\ Cardinality(scripts) >= 2 /\ numid > 0 /\ strid # <<>>
    /\ ret.op = "alert" /\ ret.status = "RuntimeError"

\* C10: disable_old_alerts() never fails and never changes numid or strid;
\* calls with the same marker return the same script, whose entries are the
\* marker, then the auto identifiers ascending, then the explicit ones in
\* registration order.
C10_Script ==
    /\ ret.op = "disable_old_alerts" =>
          /\ ret.status = "ok"
          /\ EntryKeys(ret.out) =
                <<ret.marker>>
                \o [k \in 1..Len(AutoIssued) |-> "alert-" \o Dec(k - 1)]
                \o [k \in 1..Len(ExplicitIssued) |-> "alert-" \o Str(ExplicitIssued[k].ID)]
    /\ \A p, q \in scripts : p[1] = q[1] => p[2] = q[2]

C10_DisableIsReadOnly ==
    [][ /\ C10_Script'
        /\ ret'.op = "disable_old_alerts" => (numid' = numid /\ strid' = strid) ]_vars

C10_Witness ==
    /\ ret.op = "disable_old_alerts" /\ Cardinality(scripts) >= 2
    /\ Len(AutoIssued) >= 2 /\ Len(ExplicitIssued) >= 2
    /\ ExplicitIssued[1].id # ExplicitIssued[2].id
    /\ ~issued[1].auto

-----------------------------------------------------------------------------
(* Properties of custom_rt_color_css (checked under SpecColor)             *)

\* the block sets the custom property prop
HasProp(block, prop) ==
    \E k \in 1..Len(block) : Len(block[k].body) >= 2 /\ block[k].body[2] = prop

\* 10000 * 255 * luma of a row, computed exactly
ExactLuma(hex) ==
    LET h == lstrip(hex)
    IN  2126 * Channel(h, 0) + 7152 * Channel(h, 1) + 722 * Channel(h, 2)

ExactHalf == (10000 * 255) \div 2

BlackHeader(i) == HasProp(css_rules[3 * i - 2], "header-text-color")
WhiteRolls(i)  == HasProp(css_rules[3 * i - 1], "roll-text-color")
BlackButton(i) == HasProp(css_rules[3 * i], "button-text-color")

\* C7: with luma taken exactly, the header and button blocks get the black
\* text iff luma > 0.5, the roll-result block the white text iff luma < 0.5,
\* luma = 0.5 gets neither, and no color gets both.
C7_ExactThreshold ==
    \A i \in 1..pos :
        /\ BlackHeader(i) <=> ExactLuma(table[i].hex) > ExactHalf
        /\ BlackButton(i) <=> ExactLuma(table[i].hex) > ExactHalf
        /\ WhiteRolls(i)  <=> ExactLuma(table[i].hex) < ExactHalf
        /\ ~(BlackHeader(i) /\ WhiteRolls(i))

\* what is left of C7 away from luma = 0.5
C7_AwayFromHalf ==
    \A i \in 1..pos :
        ExactLuma(table[i].hex) # ExactHalf =>
            /\ BlackHeader(i) <=> ExactLuma(table[i].hex) > ExactHalf
            /\ BlackButton(i) <=> ExactLuma(table[i].hex) > ExactHalf
            /\ WhiteRolls(i)  <=> ExactLuma(table[i].hex) < ExactHalf

IsSelector(l) ==
    Len(l.body) = 5 /\ l.body[1] = ".sheet-rolltemplate-custom .sheet-crt-container.sheet-crt-"

SelectorKinds == <<"color", "rlcolor", "btcolor">>
SelectorTails == <<" {", " .inlinerollresult {", " a {">>
Backgrounds   == <<"header-bg-color", "roll-bg-color", "button-bg-color">>

\* C9: for a table of n rows the css is "*/", then 3n rule blocks (per row,
\* in table order: header, roll-result, button), each setting its background
\* to the row's hex value and closed by "}", then "/*".
C9_RuleBlocks ==
    css # Unset =>
        LET n      == Len(table)
            inner  == SubSeq(css, 2, Len(css) - 1)
            selPos == SelectSeq([i \in 1..Len(inner) |-> i], LAMBDA i : IsSelector(inner[i]))
            endOf(k) == IF k < Len(selPos) THEN selPos[k + 1] - 1 ELSE Len(inner)
        IN  /\ css[1] = Line(0, <<"*/">>)
            /\ css[Len(css)] = Line(0, <<"/*">>)
            /\ Len(selPos) = 3 * n
            /\ Cardinality({i \in 1..Len(inner) : inner[i] = Line(0, <<"}">>)}) = 3 * n
            /\ n > 0 => selPos[1] = 1
            /\ \A k \in 1..Len(selPos) :
                  LET row  == table[((k - 1) \div 3) + 1]
                      kind == ((k - 1) % 3) + 1
                  IN  /\ inner[selPos[k]].body =
                            << ".sheet-rolltemplate-custom .sheet-crt-container.sheet-crt-",
                               SelectorKinds[kind], "-", row.color, SelectorTails[kind] >>
                      /\ inner[selPos[k] + 1] =
                            Line(4, <<"--", Backgrounds[kind], ": ">> \o row.hex \o <<";">>)
                      /\ inner[endOf(k)] = Line(0, <<"}">>)
                      /\ \A i \in selPos[k]..(endOf(k) - 1) : inner[i] # Line(0, <<"}">>)

C9_Witness ==
    /\ css # Unset /\ Len(table) >= 2 /\ table[1] # table[2]
    /\ Len(css) > 2 + 9 * Len(table)

-----------------------------------------------------------------------------
(* Properties of EXPORTS (checked under SpecExports)                       *)

\* the tabs among the first m merged that define key k
Defining(k, m) == {i \in 1..m : k \in DOMAIN tabs[i]}

Max(S) == CHOOSE x \in S : \A y \in S : x >= y

\* C8: EXPORTS is the left-to-right fold of the base mapping and the tab
\* mappings: it holds every key of every mapping merged, a key bound to the
\* value of the last tab defining it, or to its base value if no tab does.
C8_LastTabWins ==
    /\ DOMAIN EXPORTS = BaseKeys \cup UNION {DOMAIN tabs[i] : i \in 1..merged}
    /\ \A k \in DOMAIN EXPORTS :
          IF Defining(k, merged) # {}
          THEN EXPORTS[k] = tabs[Max(Defining(k, merged))][k]
          ELSE EXPORTS[k] = <<"arm5_py_integration", k>>

C8_Witness ==
    /\ merged = Len(TabModules)
    /\ Defining("alert", merged) = {2, 5}
    /\ Defining("xp_table", merged) = {1, 3}
    /\ EXPORTS["alert"] = <<"tab_5_spells", "alert">>
    /\ EXPORTS["xp_table"] = <<"tab_3_magic", "xp_table">>
    /\ EXPORTS["custom_rt_color_css"] = <<"arm5_py_integration", "custom_rt_color_css">>

====
